---- MODULE Spec2Model ----
(***************************************************************************)
(* A model of emcee_specfit.py: the likelihood lnprobmodel, the posterior  *)
(* function lnprob, the prior building blocks, the sampler orchestration   *)
(* get_sampler / run_sampler and the confidence bands of calc_fit_CI.      *)
(*                                                                         *)
(* Floating-point values are modelled as extended exact numbers: a finite  *)
(* value is a rational n/d plus l times the irrational log(1 - cl) of the  *)
(* evaluation's confidence level u, and the three non-finite values are    *)
(* -inf, +inf and nan, combined by the IEEE-754 rules numpy applies.       *)
(* Rounding and overflow of finite intermediate values are not modelled.   *)
(***************************************************************************)
EXTENDS Integers, Sequences, FiniteSets, TLC

VARIABLES
    pc,        \* position of the component under check
    model,     \* lnprobmodel: the model flux array
    data,      \* the observation set: ene, flux, dflux, ul, cl
    lnp,       \* lnprobmodel: the value returned
    modelout,  \* lnprob: what the model evaluator returned
    post,      \* lnprob: the (total_lnprob, blob) it returned
    pval,      \* normal_prior / uniform_prior: the (value, a, b) arguments
    pret,      \* normal_prior / uniform_prior: the values returned
    p00,       \* the module-level default initial guess (a mutable array)
    userp0,    \* an initial-guess array owned by the caller
    samplers,  \* the emcee.EnsembleSampler objects created so far
    call,      \* the run_sampler / get_sampler call in progress
    ncalls,    \* number of run_sampler calls started
    hist,      \* record of the calls that returned
    blobs,     \* calc_fit_CI: sampler.blobs, [step][walker] -> blob
    confs,     \* calc_fit_CI: the requested confidence levels
    last_step, \* calc_fit_CI: the last_step argument
    ci         \* calc_fit_CI: what it returned

vars == <<pc, model, data, lnp, modelout, post, pval, pret, p00, userp0,
          samplers, call, ncalls, hist, blobs, confs, last_step, ci>>

None == "None"

--------------------------------------------------------------------------
(* Exact arithmetic *)

Abs(x) == IF x < 0 THEN -x ELSE x

RECURSIVE GCD(_, _)
GCD(a, b) == IF b = 0 THEN a ELSE GCD(b, a % b)

RECURSIVE SeqSum(_)
SeqSum(s) == IF s = <<>> THEN 0 ELSE Head(s) + SeqSum(Tail(s))

\* The indices of a boolean mask that are set, in order (numpy mask indexing).
Selected(mask) == SelectSeq([i \in 1..Len(mask) |-> i], LAMBDA i : mask[i])

NoUnit == <<0, 1>>

NaN  == [k |-> "nan",  n |-> 0, d |-> 1, l |-> 0, u |-> NoUnit]
NInf == [k |-> "ninf", n |-> 0, d |-> 1, l |-> 0, u |-> NoUnit]
PInf == [k |-> "pinf", n |-> 0, d |-> 1, l |-> 0, u |-> NoUnit]

\* The finite value n/d + l*log(1 - u), in lowest terms; d # 0.
FinL(n, d, l, u) ==
    LET g == GCD(Abs(n), Abs(d))
        s == IF d < 0 THEN -1 ELSE 1
    IN  [k |-> "fin", n |-> s * (n \div g), d |-> s * (d \div g), l |-> l,
         u |-> IF l = 0 THEN NoUnit ELSE u]

Fin(n, d) == FinL(n, d, 0, NoUnit)

Zero == Fin(0, 1)

IsFinite(x) == x.k = "fin"

\* IEEE-754 addition.
ExtAdd(a, b) ==
    IF a.k = "nan" \/ b.k = "nan" THEN NaN
    ELSE IF a.k = "fin" /\ b.k = "fin"
         THEN FinL(a.n * b.d + b.n * a.d, a.d * b.d, a.l + b.l,
                   IF a.l # 0 THEN a.u ELSE b.u)
    ELSE IF a.k = "fin" THEN b
    ELSE IF b.k = "fin" THEN a
    ELSE IF a.k = b.k THEN a
    ELSE NaN

\* IEEE-754 product of a count c >= 0 and a value.
ExtMulInt(c, x) ==
    IF x.k = "nan" THEN NaN
    ELSE IF x.k = "fin" THEN FinL(c * x.n, x.d, c * x.l, x.u)
    ELSE IF c = 0 THEN NaN
    ELSE x

ExtNeg(x) ==
    IF x.k = "fin" THEN FinL(-x.n, x.d, -x.l, x.u)
    ELSE IF x.k = "ninf" THEN PInf
    ELSE IF x.k = "pinf" THEN NInf
    ELSE NaN

RECURSIVE ExtSum(_)
ExtSum(s) == IF s = <<>> THEN Zero ELSE ExtAdd(Head(s), ExtSum(Tail(s)))

\* IEEE-754 quotient of the integers num and den (den >= 0, a positive zero).
ExtDiv(num, den) ==
    IF den # 0 THEN Fin(num, den)
    ELSE IF num = 0 THEN NaN
    ELSE IF num < 0 THEN NInf
    ELSE PInf

\* np.log(1. - cl) for the rational cl = c[1]/c[2].
Log1m(c) ==
    IF c[1] > c[2] THEN NaN
    ELSE IF c[1] = c[2] THEN NInf
    ELSE IF c[1] = 0 THEN Zero
    ELSE FinL(0, 1, 1, c)

--------------------------------------------------------------------------
(* Likelihood: lnprobmodel *)

\* np.rank(a): the number of dimensions of the array.
Rank(a) == a.ndim

\* The error of one non-upper-limit point when dflux has two columns:
\* sign = difference > 0, loerr = 1 * -sign, hierr = 1 * sign, and the
\* unary minus of a boolean array is its logical negation.
asym_sigma_swapped(difference, row) ==
    LET sign  == difference > 0
        loerr == IF sign THEN 1 ELSE 0
        hierr == IF ~sign THEN 1 ELSE 0
    IN  loerr * row[1] + hierr * row[2]

asym_sigma(difference, row) ==
    LET sign  == difference > 0
        loerr == IF ~sign THEN 1 ELSE 0
        hierr == IF sign THEN 1 ELSE 0
    IN  loerr * row[1] + hierr * row[2]

\* One element of logprob: - difference**2 / (2. * sigma**2).
logprob_term(difference, sigma) ==
    ExtDiv(-(difference * difference), 2 * sigma * sigma)

\* The sigma lnprobmodel uses for point i. An array is the record of its
\* number of dimensions and its rows; a row of a 1-d array has one entry.
point_sigma(dat, difference, i) ==
    IF Rank(dat.dflux) > 1
    THEN asym_sigma(difference, dat.dflux.a[i])
    ELSE dat.dflux.a[i][1]

lnprobmodel_violated_guard(mod, dat) ==
    LET ul    == dat.ul
        notul == [i \in 1..Len(ul) |-> ~ul[i]]
        sel   == Selected(notul)
        logprob == [j \in 1..Len(sel) |->
                      LET difference == mod[sel[j]] - dat.flux[sel[j]]
                      IN  logprob_term(difference,
                                       point_sigma(dat, difference, sel[j]))]
        totallogprob == ExtSum(logprob)
        violated_uls ==
            Cardinality({i \in 1..Len(ul) : ul[i] /\ mod[i] > dat.flux[i]})
    IN  IF violated_uls > 0
        THEN ExtAdd(totallogprob, ExtMulInt(violated_uls, Log1m(dat.cl)))
        ELSE totallogprob

lnprobmodel_always_ul(mod, dat) ==
    LET ul    == dat.ul
        notul == [i \in 1..Len(ul) |-> ~ul[i]]
        sel   == Selected(notul)
        logprob == [j \in 1..Len(sel) |->
                      LET difference == mod[sel[j]] - dat.flux[sel[j]]
                      IN  logprob_term(difference,
                                       point_sigma(dat, difference, sel[j]))]
        totallogprob == ExtSum(logprob)
        violated_uls ==
            Cardinality({i \in 1..Len(ul) : ul[i] /\ mod[i] > dat.flux[i]})
    IN  ExtAdd(totallogprob, ExtMulInt(violated_uls, Log1m(dat.cl)))

lnprobmodel(mod, dat) ==
    LET ul    == dat.ul
        notul == [i \in 1..Len(ul) |-> ~ul[i]]
        sel   == Selected(notul)
        logprob == [j \in 1..Len(sel) |->
                      LET difference == mod[sel[j]] - dat.flux[sel[j]]
                      IN  logprob_term(difference,
                                       point_sigma(dat, difference, sel[j]))]
        totallogprob == ExtSum(logprob)
        violated_uls ==
            Cardinality({i \in 1..Len(ul) : ul[i] /\ mod[i] > dat.flux[i]})
    IN  IF Cardinality({i \in 1..Len(ul) : ul[i]}) > 0
        THEN ExtAdd(totallogprob, ExtMulInt(violated_uls, Log1m(dat.cl)))
        ELSE totallogprob

--------------------------------------------------------------------------
(* Inputs of the likelihood *)

MaxPts == 2

ModelValues == {1, 3}
FluxValues  == {1, 2}
ErrValues   == {<<0>>, <<1>>, <<2>>}
\* (lower error, upper error) rows: both non-zero and different, or one zero.
ErrRows     == {<<1, 2>>, <<0, 1>>, <<2, 0>>}
\* cl as a rational <<numerator, denominator>>: 0, 1/2, 1 and 3/2.
CLValues    == {<<0, 1>>, <<1, 2>>, <<1, 1>>, <<3, 2>>}

EnergyGrid(n) == [i \in 1..n |-> i]

Arrays(n, S) == [1..n -> S]

DfluxArrays(n) ==
    {[ndim |-> 1, a |-> a] : a \in Arrays(n, ErrValues)}
    \cup {[ndim |-> 2, a |-> a] : a \in Arrays(n, ErrRows)}

DataSets(n) ==
    [ene : {EnergyGrid(n)}, flux : Arrays(n, FluxValues),
     dflux : DfluxArrays(n), ul : Arrays(n, BOOLEAN), cl : CLValues]

NoData == [ene |-> <<>>, flux |-> <<>>, dflux |-> [ndim |-> 1, a |-> <<>>],
           ul |-> <<>>, cl |-> <<0, 1>>]

\* The values the variables of the other components keep.
PostIdle    == modelout = None /\ post = None
PriorIdle   == pval = None /\ pret = None
SamplerIdle == /\ p00 = None /\ userp0 = None /\ samplers = <<>>
               /\ call = None /\ ncalls = 0 /\ hist = <<>>
CIIdle      == blobs = <<>> /\ confs = <<>> /\ last_step = FALSE /\ ci = None
LikIdle     == model = <<>> /\ data = NoData /\ lnp = <<>>

postVars    == <<modelout, post>>
priorVars   == <<pval, pret>>
samplerVars == <<p00, userp0, samplers, call, ncalls, hist>>
ciVars      == <<blobs, confs, last_step, ci>>
likVars     == <<model, data, lnp>>

--------------------------------------------------------------------------
(* The likelihood called on an observation set, then called again after   *)
(* the caller changed the confidence level or the errors of the upper     *)
(* limits. lnp is the log of the evaluations: the data and the value.     *)

Evaluation(dat) == [data |-> dat, value |-> lnprobmodel(model, dat)]

HasUL(dat) == \E i \in 1..Len(dat.ul) : dat.ul[i]

\* dat with the dflux entry of every upper-limit point replaced by e.
WithULErr(dat, e) ==
    [dat EXCEPT !.dflux.a = [i \in 1..Len(dat.ul) |->
                               IF dat.ul[i] THEN e ELSE dat.dflux.a[i]]]

InitLik ==
    /\ pc = "lik_input"
    /\ \E n \in 1..MaxPts :
          /\ model \in Arrays(n, ModelValues)
          /\ data \in DataSets(n)
    /\ lnp = <<>>
    /\ PostIdle /\ PriorIdle /\ SamplerIdle /\ CIIdle

CallLnprobmodel ==
    /\ pc = "lik_input"
    /\ lnp' = Append(lnp, Evaluation(data))
    /\ pc' = "lik_done"
    /\ UNCHANGED <<model, data, postVars, priorVars, samplerVars, ciVars>>

CallWithOtherCL ==
    /\ pc = "lik_done"
    /\ \E c \in CLValues \ {data.cl} :
          /\ data' = [data EXCEPT !.cl = c]
          /\ lnp' = Append(lnp, Evaluation(data'))
    /\ pc' = "lik_again"
    /\ UNCHANGED <<model, postVars, priorVars, samplerVars, ciVars>>

CallWithOtherULErr ==
    /\ pc = "lik_done"
    /\ HasUL(data)
    /\ \E e \in (IF Rank(data.dflux) > 1 THEN ErrRows ELSE ErrValues) :
          /\ data' = WithULErr(data, e)
          /\ data' # data
          /\ lnp' = Append(lnp, Evaluation(data'))
    /\ pc' = "lik_again"
    /\ UNCHANGED <<model, postVars, priorVars, samplerVars, ciVars>>

NextLik == CallLnprobmodel \/ CallWithOtherCL \/ CallWithOtherULErr

SpecLik == InitLik /\ [][NextLik]_vars

--------------------------------------------------------------------------
(* Claims about lnprobmodel. The expected values are written out from the *)
(* statements, with Python's arithmetic, and not from the operators above. *)

NonUL(dat) == {i \in 1..Len(dat.ul) : ~dat.ul[i]}

RECURSIVE ExtSumOver(_, _)
ExtSumOver(S, f) ==
    IF S = {} THEN Zero
    ELSE LET i == CHOOSE j \in S : \A m \in S : j <= m
         IN  ExtAdd(f[i], ExtSumOver(S \ {i}, f))

\* sum over the non-upper-limit points of -difference^2 / (2*sigma^2), with
\* the error column Col(difference) of a two-column dflux.
QuadraticSum(mod, dat, Col(_)) ==
    ExtSumOver(NonUL(dat),
        [i \in NonUL(dat) |->
            LET d == mod[i] - dat.flux[i]
                s == IF dat.dflux.ndim = 2 THEN dat.dflux.a[i][Col(d)]
                     ELSE dat.dflux.a[i][1]
            IN  ExtDiv(-(d * d), 2 * s * s)])

Violated(mod, dat) ==
    Cardinality({i \in 1..Len(dat.ul) : dat.ul[i] /\ mod[i] > dat.flux[i]})

\* The upper-limit term as the code adds it: present when there is an upper
\* limit, and then the IEEE product of the count and log(1 - cl).
ULTermIEEE(mod, dat) ==
    IF HasUL(dat) THEN ExtMulInt(Violated(mod, dat), Log1m(dat.cl)) ELSE Zero

\* Column 0 of the source is column 1 here, column 1 is column 2.
ColumnClaimed(d) == IF d > 0 THEN 1 ELSE 2
ColumnInCode(d)  == IF d > 0 THEN 2 ELSE 1

Evaluations == {lnp[j] : j \in 1..Len(lnp)}

\* C1 as stated, on data whose errors are all non-zero: with a two-column
\* dflux a non-upper-limit point uses the
\* lower-error column (index 0) when difference > 0 and the upper-error
\* column (index 1) when difference <= 0, and contributes
\* -difference^2/(2*sigma^2) to the total.
C1_AsStated ==
    \A e \in Evaluations :
        (/\ e.data.dflux.ndim = 2
         /\ \A i \in NonUL(e.data) : e.data.dflux.a[i] = <<1, 2>>) =>
            e.value = ExtAdd(QuadraticSum(model, e.data, ColumnClaimed),
                             ULTermIEEE(model, e.data))

\* C1 amended: the columns are the other way round: the upper-error column
\* (index 1) when difference > 0, the lower-error column (index 0) when
\* difference <= 0; the point contributes -difference^2/(2*sigma^2).
C1_ColumnByDifference ==
    \A e \in Evaluations :
        e.data.dflux.ndim = 2 =>
            e.value = ExtAdd(QuadraticSum(model, e.data, ColumnInCode),
                             ULTermIEEE(model, e.data))

\* An evaluation with asymmetric errors, a point with the model above the
\* data and one with the model below, where the choice of column shows.
C1_Witness ==
    \E e \in Evaluations :
        /\ e.data.dflux.ndim = 2
        /\ \E i, j \in NonUL(e.data) :
              /\ model[i] > e.data.flux[i]
              /\ model[j] < e.data.flux[j]
              /\ e.data.dflux.a[i] = <<1, 2>>
              /\ e.data.dflux.a[j] = <<1, 2>>
        /\ IsFinite(e.value)
        /\ e.value # ExtAdd(QuadraticSum(model, e.data, ColumnClaimed),
                            ULTermIEEE(model, e.data))

\* C2 as stated, for confidence levels 0 <= cl <= 1: the value is the
\* quadratic sum plus k*log(1 - cl), k the number of violated upper limits;
\* an upper limit that is not violated adds nothing; the dflux of an upper
\* limit does not change the value.
C2_AsStated ==
    /\ \A e \in Evaluations :
          e.data.cl[1] <= e.data.cl[2] =>
             e.value = ExtAdd(QuadraticSum(model, e.data, ColumnInCode),
                              IF Violated(model, e.data) = 0 THEN Zero
                              ELSE ExtMulInt(Violated(model, e.data),
                                             Log1m(e.data.cl)))
    /\ \A e, f \in Evaluations :
          (\E r \in ErrRows \cup ErrValues : f.data = WithULErr(e.data, r))
             => f.value = e.value

\* C3 as stated: the value is finite for every finite input, a zero dflux
\* and cl = 1 with a violated upper limit included.
C3_AsStated == \A e \in Evaluations : IsFinite(e.value)

\* C3 amended: the value is finite exactly when the sigma of every
\* non-upper-limit point is non-zero and, if there is any upper limit,
\* cl < 1.
C3_FiniteIff ==
    \A e \in Evaluations :
        IsFinite(e.value) <=>
            /\ \A i \in NonUL(e.data) :
                  LET d == model[i] - e.data.flux[i]
                  IN  IF e.data.dflux.ndim = 2
                      THEN e.data.dflux.a[i][ColumnInCode(d)] # 0
                      ELSE e.data.dflux.a[i][1] # 0
            /\ HasUL(e.data) => e.data.cl[1] < e.data.cl[2]

\* A finite evaluation with a violated upper limit at cl = 1/2 and a zero
\* error in the column that is not used, then -inf once cl is 1.
C3_Witness ==
    /\ Len(lnp) = 2
    /\ lnp[1].data.cl = <<1, 2>>
    /\ Violated(model, lnp[1].data) > 0
    /\ \E i \in NonUL(lnp[1].data) :
          model[i] > lnp[1].data.flux[i] /\ lnp[1].data.dflux.a[i] = <<0, 1>>
    /\ IsFinite(lnp[1].value)
    /\ lnp[2].data = [lnp[1].data EXCEPT !.cl = <<1, 1>>]
    /\ lnp[2].value = NInf

\* C4: with no upper-limit point, two evaluations that differ only in cl
\* return the same value.
C4_CLUnused ==
    \A e, f \in Evaluations :
        (~HasUL(e.data) /\ f.data = [e.data EXCEPT !.cl = f.data.cl])
            => f.value = e.value

\* Two evaluations without upper limits, the second with cl = 1.
C4_Witness ==
    /\ Len(lnp) = 2
    /\ ~HasUL(lnp[1].data)
    /\ lnp[1].data.cl = <<1, 2>>
    /\ lnp[2].data = [lnp[1].data EXCEPT !.cl = <<1, 1>>]
    /\ lnp[2].value = lnp[1].value
    /\ IsFinite(lnp[2].value)

--------------------------------------------------------------------------
(* Posterior function: lnprob *)

\* The initial-guess arrays, with p0[1], the normalization, counted in
\* units of 1e-11: p00 = np.array((2,1e-11,10,1)).
p00_initial    == <<2, 1, 10, 1>>
userp0_initial == <<2, 3, 10, 1>>

flatprior(pars) == Zero

\* What a model evaluator returns: a bare flux array, or a tuple whose
\* element 0 is the flux array.
IsTuple(mout) == mout.type = "tuple"

lnprob_with_model_slot(pars, dat, mout) ==
    LET flux_array == IF IsTuple(mout) THEN mout.v[1] ELSE mout.v
        blob == IF IsTuple(mout)
                THEN <<<<dat.ene, flux_array>>>> \o Tail(mout.v)
                ELSE <<<<dat.ene, mout.v>>>>
        lnprob_model  == lnprobmodel(flux_array, dat)
        lnprob_priors == flatprior(pars)
    IN  [total_lnprob |-> ExtAdd(lnprob_model, lnprob_priors), blob |-> blob]

\* lnprob(pars, data, modelfunc, priorfunc), with mout the value of
\* modelfunc(pars, data) and flatprior as priorfunc. The progress line it
\* prints is not part of the state.
lnprob(pars, dat, mout) ==
    LET flux_array == IF IsTuple(mout) THEN mout.v[1] ELSE mout.v
        blob == IF IsTuple(mout)
                THEN Tail(mout.v)
                ELSE <<<<dat.ene, mout.v>>>>
        lnprob_model  == lnprobmodel(flux_array, dat)
        lnprob_priors == flatprior(pars)
    IN  [total_lnprob |-> ExtAdd(lnprob_model, lnprob_priors), blob |-> blob]

MaxExtras == 2

\* The observation sets of the posterior's check: symmetric unit errors.
PostDataSets(n) ==
    [ene : {EnergyGrid(n)}, flux : Arrays(n, FluxValues),
     dflux : {[ndim |-> 1, a |-> [i \in 1..n |-> <<1>>]]},
     ul : Arrays(n, BOOLEAN), cl : {<<1, 2>>}]

\* An extra payload: a pair of arrays, so that [0] and [1] can be read.
Payloads(n) == {<<EnergyGrid(n), a>> : a \in Arrays(n, ModelValues)}

ExtraSeqs(n) == UNION {[1..m -> Payloads(n)] : m \in 0..MaxExtras}

ModelOuts(n) ==
    {[type |-> "ndarray", v |-> f] : f \in Arrays(n, ModelValues)}
    \cup {[type |-> "tuple", v |-> <<f>> \o x] :
             f \in Arrays(n, ModelValues), x \in ExtraSeqs(n)}

InitPost ==
    /\ pc = "post_input"
    /\ \E n \in 1..MaxPts :
          /\ data \in PostDataSets(n)
          /\ modelout \in ModelOuts(n)
    /\ post = None
    /\ model = <<>> /\ lnp = <<>>
    /\ PriorIdle /\ SamplerIdle /\ CIIdle

CallLnprob ==
    /\ pc = "post_input"
    /\ post' = lnprob(p00_initial, data, modelout)
    /\ pc' = "post_done"
    /\ UNCHANGED <<modelout, likVars, priorVars, samplerVars, ciVars>>

NextPost == CallLnprob

SpecPost == InitPost /\ [][NextPost]_vars

\* The flux array the model evaluator returned, and its extras.
FluxOf(mout)   == IF IsTuple(mout) THEN mout.v[1] ELSE mout.v
ExtrasOf(mout) == IF IsTuple(mout) THEN Tail(mout.v) ELSE <<>>

\* C5 as stated: slot 0 of the blob always holds the model curve: the blob
\* is ((energy_grid, flux_array),) for a bare array and
\* (flux_array_info, extra_1, ..., extra_n) for a tuple, so blob[0][1] is
\* the evaluated flux array in both cases.
C5_AsStated ==
    pc = "post_done" =>
        /\ Len(post.blob) = 1 + Len(ExtrasOf(modelout))
        /\ post.blob[1] = <<data.ene, FluxOf(modelout)>>
        /\ Tail(post.blob) = ExtrasOf(modelout)

\* C5 amended: for a bare array the blob is ((energy_grid, flux_array),)
\* and blob[0][1] is the flux array; for a tuple the blob is
\* (extra_1, ..., extra_n) alone: the flux array is not put in it, slot 0
\* is extra_1 and the blob is empty when there is no extra.
C5_BlobSlots ==
    pc = "post_done" =>
        IF IsTuple(modelout)
        THEN post.blob = ExtrasOf(modelout)
        ELSE post.blob = <<<<data.ene, modelout.v>>>>
             /\ post.blob[1][2] = FluxOf(modelout)

\* lnprob returned for a tuple with extras whose first one does not carry
\* the flux array: blob[0][1] is not the model curve.
C5_Witness ==
    /\ pc = "post_done"
    /\ IsTuple(modelout)
    /\ Len(post.blob) = 2
    /\ post.blob[1][2] # FluxOf(modelout)
    /\ IsFinite(post.total_lnprob)

--------------------------------------------------------------------------
(* Prior building blocks: uniform_prior and normal_prior *)

\* uniform_prior(value, umin, umax)
uniform_prior(value, umin, umax) ==
    IF umin <= value /\ value <= umax THEN Zero ELSE NInf

\* normal_prior(value, mean, sigma) =
\*     - 0.5 * (2 * np.pi * sigma) - (value - mean) ** 2 / (2. * sigma)
\* as the pair of the rational coefficient of pi and the rest.
normal_prior(value, mean, sigma) ==
    [pi   |-> ExtNeg(Fin(sigma, 1)),
     rest |-> ExtNeg(ExtDiv((value - mean) * (value - mean), 2 * sigma))]

\* a - b for two values of normal_prior.
PriorDifference(a, b) ==
    [pi   |-> ExtAdd(a.pi, ExtNeg(b.pi)),
     rest |-> ExtAdd(a.rest, ExtNeg(b.rest))]

MaxPriorValue == 4
MaxSigma == 3

InitPrior ==
    /\ pc = "prior_input"
    /\ pval \in (0..MaxPriorValue) \X (0..MaxPriorValue) \X (1..MaxSigma)
    /\ pret = <<>>
    /\ LikIdle /\ PostIdle /\ SamplerIdle /\ CIIdle

\* normal_prior(value, mean, sigma), then normal_prior(mean, mean, sigma).
CallNormalPrior ==
    /\ pc = "prior_input"
    /\ pret' = <<normal_prior(pval[1], pval[2], pval[3])>>
    /\ pc' = "prior_normal"
    /\ UNCHANGED <<pval, likVars, postVars, samplerVars, ciVars>>

CallNormalPriorAtMean ==
    /\ pc = "prior_normal"
    /\ pret' = Append(pret, normal_prior(pval[2], pval[2], pval[3]))
    /\ pc' = "prior_done"
    /\ UNCHANGED <<pval, likVars, postVars, samplerVars, ciVars>>

\* uniform_prior(value, umin, umax) with umin = mean and umax = mean + sigma.
CallUniformPrior ==
    /\ pc = "prior_input"
    /\ pret' = <<uniform_prior(pval[1], pval[2], pval[2] + pval[3])>>
    /\ pc' = "prior_uniform"
    /\ UNCHANGED <<pval, likVars, postVars, samplerVars, ciVars>>

NextPrior == CallNormalPrior \/ CallNormalPriorAtMean \/ CallUniformPrior

SpecPrior == InitPrior /\ [][NextPrior]_vars

\* C9: for sigma > 0, normal_prior(value, mean, sigma) -
\* normal_prior(mean, mean, sigma) = -(value - mean)^2 / (2 * sigma^2).
C9_AsStated ==
    pc = "prior_done" =>
        PriorDifference(pret[1], pret[2]) =
            [pi   |-> Zero,
             rest |-> Fin(-((pval[1] - pval[2]) * (pval[1] - pval[2])),
                          2 * pval[3] * pval[3])]

--------------------------------------------------------------------------
(* Confidence bands: calc_fit_CI *)

\* stats.norm.cdf(x) for the levels used, as the rational <<num, den>> of
\* its first seven decimals; cdf(9) is 1.0 in double precision.
norm_cdf(x) ==
    CASE x = -9 -> <<0, 10000000>>
      [] x = -3 -> <<13499, 10000000>>
      [] x = -2 -> <<227501, 10000000>>
      [] x = -1 -> <<1586553, 10000000>>
      [] x = 0  -> <<5000000, 10000000>>
      [] x = 1  -> <<8413447, 10000000>>
      [] x = 2  -> <<9772499, 10000000>>
      [] x = 3  -> <<9986501, 10000000>>
      [] x = 9  -> <<10000000, 10000000>>

\* np.sort of a one-dimensional array.
np_sort_omitted(a) == a

np_sort(a) == SortSeq(a, LAMBDA x, y : x < y)

\* nf = int(fr * nwalkers), fr >= 0: truncation.
quantile_index_nminus1(fr, nwalkers) == (fr[1] * (nwalkers - 1)) \div fr[2]

quantile_index(fr, nwalkers) == (fr[1] * nwalkers) \div fr[2]

\* model = np.array([m[modelidx][1] for m in ...]): the curves of the last
\* step, or of every step in turn.
RECURSIVE Flatten(_)
Flatten(ss) == IF ss = <<>> THEN <<>> ELSE Head(ss) \o Flatten(Tail(ss))

selected_curves(bl, modelidx, last) ==
    LET curve(m) == m[modelidx + 1][2]
    IN  IF last
        THEN [w \in 1..Len(bl[Len(bl)]) |-> curve(bl[Len(bl)][w])]
        ELSE Flatten([t \in 1..Len(bl) |->
                        [w \in 1..Len(bl[t]) |-> curve(bl[t][w])]])

\* One bound of one band: for each energy-grid point the sorted values at
\* index nf (0-based in the source).
band_bound(curves, modelx, nf) ==
    [i \in 1..Len(modelx) |->
        LET ysort == np_sort([w \in 1..Len(curves) |-> curves[w][i]])
        IN  ysort[nf + 1]]

\* calc_fit_CI(sampler, modelidx, confs, last_step): modelx and CI, or the
\* IndexError of ysort[nf] with nf = nwalkers. The third value it returns,
\* the curve of the mean parameters, is not modelled.
calc_fit_CI(bl, modelidx, cf, last) ==
    LET curves   == selected_curves(bl, modelidx, last)
        modelx   == bl[Len(bl)][1][modelidx + 1][1]
        nwalkers == Len(curves)
        fmin(c)  == norm_cdf(-c)
        fmax(c)  == norm_cdf(c)
        inrange(c) == /\ quantile_index(fmin(c), nwalkers) < nwalkers
                      /\ quantile_index(fmax(c), nwalkers) < nwalkers
    IN  IF \E k \in 1..Len(cf) : ~inrange(cf[k])
        THEN [error |-> "IndexError", modelx |-> modelx, CI |-> <<>>]
        ELSE [error |-> None, modelx |-> modelx,
              CI |-> [k \in 1..Len(cf) |->
                       [ymin |-> band_bound(curves, modelx,
                                    quantile_index(fmin(cf[k]), nwalkers)),
                        ymax |-> band_bound(curves, modelx,
                                    quantile_index(fmax(cf[k]), nwalkers))]]]

MaxWalkers == 3

BlobStepCounts == {1, 2}
ConfValues     == {0, 1, 2, 3, 9}
CIGrid         == EnergyGrid(2)
CICurves       == {<<0, 2>>, <<1, 1>>, <<2, 0>>}

\* The blob lnprob stores for a model evaluator returning a bare array.
CIBlobs == {<<<<CIGrid, c>>>> : c \in CICurves}

InitCI ==
    /\ pc = "ci_input"
    /\ \E t \in BlobStepCounts, w \in 1..MaxWalkers :
          blobs \in [1..t -> [1..w -> CIBlobs]]
    /\ confs \in [1..2 -> ConfValues] \cup [1..1 -> ConfValues]
    /\ last_step \in BOOLEAN
    /\ ci = None
    /\ LikIdle /\ PostIdle /\ PriorIdle /\ SamplerIdle

CallCalcFitCI ==
    /\ pc = "ci_input"
    /\ ci' = calc_fit_CI(blobs, 0, confs, last_step)
    /\ pc' = "ci_done"
    /\ UNCHANGED <<blobs, confs, last_step, likVars, postVars, priorVars,
                   samplerVars>>

NextCI == CallCalcFitCI

SpecCI == InitCI /\ [][NextCI]_vars

\* The curves calc_fit_CI selects, read off the arguments.
CICurvesUsed ==
    IF last_step
    THEN [w \in 1..Len(blobs[Len(blobs)]) |-> blobs[Len(blobs)][w][1][2]]
    ELSE Flatten([t \in 1..Len(blobs) |->
                    [w \in 1..Len(blobs[t]) |-> blobs[t][w][1][2]]])

CIColumn(i) == [w \in 1..Len(CICurvesUsed) |-> CICurvesUsed[w][i]]

CIReturned == pc = "ci_done" /\ ci.error = None

\* v is the value of rank k (0-based) among the values of column a.
IsOrderStatistic(a, k, v) ==
    /\ \E j \in 1..Len(a) : a[j] = v
    /\ Cardinality({j \in 1..Len(a) : a[j] < v}) <= k
    /\ Cardinality({j \in 1..Len(a) : a[j] <= v}) > k

\* v is np.median(a): the middle value, or the mean of the two middle
\* values of an even number of values.
IsMedian(a, v) ==
    \E lo, hi \in {a[j] : j \in 1..Len(a)} :
        /\ IsOrderStatistic(a, (Len(a) - 1) \div 2, lo)
        /\ IsOrderStatistic(a, Len(a) \div 2, hi)
        /\ 2 * v = lo + hi

\* C7: for two requested levels c1 < c2 the c2 band contains the c1 band
\* at every energy-grid point:
\* ymin(c2) <= ymin(c1) <= ymax(c1) <= ymax(c2).
C7_BandsNested ==
    CIReturned =>
        \A a, b \in 1..Len(confs) :
            confs[a] < confs[b] =>
                \A i \in 1..Len(ci.modelx) :
                    /\ ci.CI[b].ymin[i] <= ci.CI[a].ymin[i]
                    /\ ci.CI[a].ymin[i] <= ci.CI[a].ymax[i]
                    /\ ci.CI[a].ymax[i] <= ci.CI[b].ymax[i]

\* Bands for the levels 1 and 0 over curves that cross: the outer band is
\* strictly wider at some point.
C7_Witness ==
    /\ CIReturned
    /\ confs = <<1, 0>>
    /\ \E i \in 1..Len(ci.modelx) :
          /\ ci.CI[1].ymin[i] < ci.CI[2].ymin[i]
          /\ ci.CI[2].ymax[i] < ci.CI[1].ymax[i]

\* C8 as stated: for level 0 the lower and upper values at every grid point
\* are equal and are the median of the point's values, for every number of
\* curves.
C8_AsStated ==
    CIReturned =>
        \A k \in 1..Len(confs) :
            confs[k] = 0 =>
                \A i \in 1..Len(ci.modelx) :
                    /\ ci.CI[k].ymin[i] = ci.CI[k].ymax[i]
                    /\ IsMedian(CIColumn(i), ci.CI[k].ymin[i])

\* C8 amended: for level 0 the lower and upper values at every grid point
\* are equal and are the sorted value at index int(n/2) of the n curves:
\* the median when n is odd, the upper of the two middle values when n is
\* even.
C8_UpperMiddle ==
    CIReturned =>
        \A k \in 1..Len(confs) :
            confs[k] = 0 =>
                \A i \in 1..Len(ci.modelx) :
                    /\ ci.CI[k].ymin[i] = ci.CI[k].ymax[i]
                    /\ IsOrderStatistic(CIColumn(i), Len(CICurvesUsed) \div 2,
                                        ci.CI[k].ymin[i])
                    /\ Len(CICurvesUsed) % 2 = 1
                          => IsMedian(CIColumn(i), ci.CI[k].ymin[i])

\* Level 0 over an even number of curves whose two middle values differ:
\* the band is the upper one, not the median.
C8_Witness ==
    /\ CIReturned
    /\ confs[1] = 0
    /\ Len(CICurvesUsed) % 2 = 0
    /\ \E i \in 1..Len(ci.modelx) :
          /\ ~IsMedian(CIColumn(i), ci.CI[1].ymin[i])
          /\ ci.CI[1].ymin[i] = ci.CI[1].ymax[i]

--------------------------------------------------------------------------
(* Sampler orchestration: get_sampler and run_sampler *)

\* (x/x0)**-gamma * np.exp(-(x/ecut)**beta) of cutoffexp for gamma = 2,
\* ecut = 10, beta = 1 on the energies (1, 2), x0 their geometric mean:
\* 1.81 and 0.41, counted in units of 0.2.
cutoff_shape(x) == IF x = 1 THEN 9 ELSE 2

\* cutoffexp(pars, data): N times the shape; element 1 of pars is pars[2].
cutoffexp(pars, dat) ==
    [type |-> "ndarray",
     v |-> [i \in 1..Len(dat.ene) |-> pars[2] * cutoff_shape(dat.ene[i])]]

\* np.trapz(y, x), as the rational <<numerator, denominator>>.
np_trapz(y, x) ==
    <<SeqSum([i \in 1..(Len(x) - 1) |-> (x[i + 1] - x[i]) * (y[i + 1] + y[i])]),
      2>>

\* The guess of get_sampler: the array p0 after
\*   lp,blob=lnprob(p0,data,model,prior)
\*   p0[1]*=np.trapz(data['flux'],data['ene'])/np.trapz(spec,ene)
\* The data sets below make the quotient a whole number of units.
guess_normalization(p0, dat) ==
    LET blob == lnprob(p0, dat, cutoffexp(p0, dat)).blob
        ene  == blob[1][1]
        spec == blob[1][2]
        tf   == np_trapz(dat.flux, dat.ene)
        ts   == np_trapz(spec, ene)
    IN  [p0 EXCEPT ![2] = (p0[2] * tf[1] * ts[2]) \div (tf[2] * ts[1])]

MaxCalls == 2
MaxSteps == 2

SamplerData ==
    {[ene |-> <<1, 2>>, flux |-> f,
      dflux |-> [ndim |-> 1, a |-> <<<<1>>, <<1>>>>],
      ul |-> <<FALSE, FALSE>>, cl |-> <<1, 2>>] : f \in {<<33, 22>>, <<11, 11>>}}

\* One step of the chain and of the blob history, which is also the
\* ensemble's position after it: the call, the phase and the step number.
Step(id, phase, k) == [call |-> id, phase |-> phase, k |-> k]

\* sampler.run_mcmc advances one step: a row is appended to the chain and
\* to the blobs of the sampler.
mcmc_step(smp, st) ==
    [smp EXCEPT !.chain = Append(@, st), !.blobs = Append(@, st)]

\* sampler.reset()
sampler_reset(smp) == [smp EXCEPT !.chain = <<>>, !.blobs = <<>>]

\* No positions (pos=None), and no sampler (sampler=None): index 0.
NoPos == Step(0, "None", 0)

\* The positions the caller holds: those earlier calls returned.
ReturnedPositions == {hist[j].pos : j \in 1..Len(hist)} \ {NoPos}

InitSampler ==
    /\ pc = "idle"
    /\ p00 = p00_initial
    /\ userp0 = userp0_initial
    /\ samplers = <<>>
    /\ call = None
    /\ ncalls = 0
    /\ hist = <<>>
    /\ LikIdle /\ PostIdle /\ PriorIdle /\ CIIdle

\* run_sampler(nrun, sampler, pos, **kwargs) is entered:
\*   if sampler==None or pos==None: sampler,pos=get_sampler(**kwargs)
RunSamplerCall ==
    /\ pc = "idle"
    /\ ncalls < MaxCalls
    /\ \E nrun \in 1..MaxSteps,
          s \in 0..Len(samplers),
          p \in {NoPos} \cup ReturnedPositions :
          /\ call' = [op |-> "run_sampler", id |-> ncalls + 1, nrun |-> nrun,
                      nburn |-> 0, sampler |-> s, pos |-> p, arg |-> p,
                      given |-> (s # 0 /\ p # NoPos),
                      start |-> NoPos, k |-> 0]
          /\ pc' = IF s = 0 \/ p = NoPos THEN "get_sampler" ELSE "reset"
    /\ ncalls' = ncalls + 1
    /\ UNCHANGED <<p00, userp0, samplers, hist, likVars, postVars, priorVars,
                   ciVars>>

\* get_sampler(...) is called by the user.
GetSamplerCall ==
    /\ pc = "idle"
    /\ ncalls < MaxCalls
    /\ call' = [op |-> "get_sampler", id |-> ncalls + 1, nrun |-> 0,
                nburn |-> 0, sampler |-> 0, pos |-> NoPos, arg |-> NoPos,
                given |-> FALSE, start |-> NoPos, k |-> 0]
    /\ pc' = "get_sampler"
    /\ ncalls' = ncalls + 1
    /\ UNCHANGED <<p00, userp0, samplers, hist, likVars, postVars, priorVars,
                   ciVars>>

\* get_sampler with data=None: 'Need to provide data!', raise TypeError.
GetSamplerNoData ==
    /\ pc = "get_sampler"
    /\ hist' = Append(hist, [op |-> call.op, id |-> call.id,
                             error |-> "TypeError", sampler |-> 0,
                             pos |-> NoPos, nrun |-> call.nrun])
    /\ call' = None
    /\ pc' = "idle"
    /\ UNCHANGED <<p00, userp0, samplers, ncalls, likVars, postVars,
                   priorVars, ciVars>>

\* get_sampler up to sample_ball: the guess of the normalization, in place
\* in the array p0 names (the default p00 or the caller's array), the new
\* sampler with sampler.data, and the walkers in a ball around p0.
GetSamplerSetup ==
    /\ pc = "get_sampler"
    /\ \E nburn \in 1..MaxSteps, guess \in BOOLEAN,
          p0 \in {"p00", "userp0"}, dat \in SamplerData :
          /\ p00' = IF guess /\ p0 = "p00"
                    THEN guess_normalization(p00, dat) ELSE p00
          /\ userp0' = IF guess /\ p0 = "userp0"
                       THEN guess_normalization(userp0, dat) ELSE userp0
          /\ samplers' = Append(samplers,
                                [chain |-> <<>>, blobs |-> <<>>, data |-> dat])
          /\ call' = [call EXCEPT !.nburn = nburn,
                                  !.sampler = Len(samplers) + 1,
                                  !.pos = Step(call.id, "ball", 0),
                                  !.k = 0]
    /\ pc' = "burn"
    /\ UNCHANGED <<ncalls, hist, likVars, postVars, priorVars, ciVars>>

\* burnin = sampler.run_mcmc(p0,nburn): one step of it.
BurnStep ==
    /\ pc = "burn"
    /\ call.k < call.nburn
    /\ LET st == Step(call.id, "burn", call.k + 1)
       IN  /\ samplers' = [samplers EXCEPT
                              ![call.sampler] = mcmc_step(@, st)]
           /\ call' = [call EXCEPT !.k = @ + 1, !.pos = st]
    /\ UNCHANGED <<pc, p00, userp0, ncalls, hist, likVars, postVars,
                   priorVars, ciVars>>

\* pos=burnin[0]; return sampler,pos: to the user, or into run_sampler.
GetSamplerReturn ==
    /\ pc = "burn"
    /\ call.k = call.nburn
    /\ IF call.op = "get_sampler"
       THEN /\ hist' = Append(hist, [op |-> call.op, id |-> call.id,
                                     error |-> None, sampler |-> call.sampler,
                                     pos |-> call.pos, nrun |-> 0])
            /\ call' = None
            /\ pc' = "idle"
       ELSE /\ hist' = hist
            /\ call' = [call EXCEPT !.k = 0]
            /\ pc' = "reset"
    /\ UNCHANGED <<p00, userp0, samplers, ncalls, likVars, postVars,
                   priorVars, ciVars>>

\* sampler.reset(), before sampler.run_mcmc(pos,nrun) starts from pos.
SamplerReset_omitted ==
    /\ pc = "reset"
    /\ samplers' = samplers
    /\ call' = [call EXCEPT !.start = call.pos, !.k = 0]
    /\ pc' = "run"
    /\ UNCHANGED <<p00, userp0, ncalls, hist, likVars, postVars, priorVars,
                   ciVars>>

SamplerReset ==
    /\ pc = "reset"
    /\ samplers' = [samplers EXCEPT ![call.sampler] = sampler_reset(@)]
    /\ call' = [call EXCEPT !.start = call.pos, !.k = 0]
    /\ pc' = "run"
    /\ UNCHANGED <<p00, userp0, ncalls, hist, likVars, postVars, priorVars,
                   ciVars>>

\* pos, prob, state, blobs = sampler.run_mcmc(pos,nrun): one step of it.
ProductionStep ==
    /\ pc = "run"
    /\ call.k < call.nrun
    /\ LET st == Step(call.id, "prod", call.k + 1)
       IN  /\ samplers' = [samplers EXCEPT
                              ![call.sampler] = mcmc_step(@, st)]
           /\ call' = [call EXCEPT !.k = @ + 1, !.pos = st]
    /\ UNCHANGED <<pc, p00, userp0, ncalls, hist, likVars, postVars,
                   priorVars, ciVars>>

\* return sampler,pos
RunSamplerReturn ==
    /\ pc = "run"
    /\ call.k = call.nrun
    /\ hist' = Append(hist, [op |-> call.op, id |-> call.id, error |-> None,
                             sampler |-> call.sampler, pos |-> call.pos,
                             nrun |-> call.nrun])
    /\ call' = None
    /\ pc' = "idle"
    /\ UNCHANGED <<p00, userp0, samplers, ncalls, likVars, postVars,
                   priorVars, ciVars>>

NextSampler ==
    \/ RunSamplerCall
    \/ GetSamplerCall
    \/ GetSamplerNoData
    \/ GetSamplerSetup
    \/ BurnStep
    \/ GetSamplerReturn
    \/ SamplerReset
    \/ ProductionStep
    \/ RunSamplerReturn

SpecSampler == InitSampler /\ [][NextSampler]_vars

\* The record of the call that returned last, while no call is running.
LastReturn == hist[Len(hist)]

RunSamplerReturned ==
    /\ pc = "idle"
    /\ hist # <<>>
    /\ LastReturn.op = "run_sampler"
    /\ LastReturn.error = None

ProductionRows(id, n) == [k \in 1..n |-> Step(id, "prod", k)]

\* Burn-in before reset before production, and the history at the return:
\* while production runs, the chain and the blobs hold the production
\* steps of this call made so far and nothing else; a burn-in of this call
\* has made all its nburn steps before the reset; when run_sampler has
\* returned, the chain and the blobs hold exactly its nrun steps.
PhasesInOrder ==
    /\ pc = "run" =>
          /\ samplers[call.sampler].chain = ProductionRows(call.id, call.k)
          /\ samplers[call.sampler].blobs = ProductionRows(call.id, call.k)
    /\ (pc \in {"reset", "run"} /\ ~call.given) =>
          /\ call.nburn >= 1
          /\ (IF pc = "run" THEN call.start ELSE call.pos)
                = Step(call.id, "burn", call.nburn)
    /\ RunSamplerReturned =>
          /\ samplers[LastReturn.sampler].chain
                = ProductionRows(LastReturn.id, LastReturn.nrun)
          /\ samplers[LastReturn.sampler].blobs
                = ProductionRows(LastReturn.id, LastReturn.nrun)
          /\ LastReturn.pos = Step(LastReturn.id, "prod", LastReturn.nrun)

\* C6 as stated: for every call of run_sampler the phases occur in the
\* order burn-in, history reset, production; production starts from the
\* final burn-in positions; at the return the chain and the blob history
\* hold exactly nrun steps, none of burn-in or of an earlier run.
C6_AsStated ==
    /\ PhasesInOrder
    /\ pc = "run" => call.start.phase = "burn"

\* C6 amended: as stated, except that production starts from the final
\* burn-in positions only when run_sampler ran get_sampler itself; given a
\* sampler and positions it starts from the positions given, whatever
\* they are (for a repeated call with the positions the earlier call
\* returned, the last positions of that production run).
C6_PhasesAndStart ==
    /\ PhasesInOrder
    /\ pc = "run" =>
          call.start = IF call.given THEN call.arg
                       ELSE Step(call.id, "burn", call.nburn)

\* A second run_sampler on the sampler and the positions the first one
\* returned has made its nrun steps: the chain holds these steps only, and
\* the production started where the first production ended.
C6_Witness ==
    /\ pc = "run"
    /\ call.given
    /\ call.k = call.nrun
    /\ \E j \in 1..Len(hist) :
          /\ hist[j].op = "run_sampler"
          /\ hist[j].sampler = call.sampler
          /\ hist[j].pos = call.start
          /\ call.start.phase = "prod"
    /\ Len(samplers[call.sampler].chain) = call.nrun

\* C10 as stated: get_sampler leaves the initial-guess array unchanged:
\* after any call the caller's p0 array and the module-level default p00
\* hold the values they held before.
C10_AsStated ==
    /\ p00 = p00_initial
    /\ userp0 = userp0_initial

====
